---- MODULE Spec2Model ----
(***************************************************************************)
(* A model of the task store of cli-task-manager: src/src/service.py       *)
(* (TaskService), src/src/schemas.py (the pydantic schemas) and            *)
(* src/src/constants.py (the enumerations and their sort ranks).           *)
(*                                                                         *)
(* Text (a Python str) is a sequence of one-character strings, a date is a *)
(* record [year, month, day], a member of a str-Enum is its value (in      *)
(* Python TaskStatus.completed == "completed"), and the data file is what  *)
(* json.load would read from it: a sequence of dicts whose values are      *)
(* text.                                                                   *)
(***************************************************************************)
EXTENDS Integers, Sequences, FiniteSets, TLC

VARIABLES file, svc, tasks, uuids, last

vars == <<file, svc, tasks, uuids, last>>

(***************************************************************************)
(* Bounds of the model.                                                    *)
(***************************************************************************)
\* how many ids uuid.uuid4() hands out in one run, i.e. how many adds succeed
MaxUuids == 1
\* add is not called on a collection of MaxTasks records
MaxTasks == 2
\* the longest collection the query specification starts from
MaxLen == 3

(***************************************************************************)
(* Characters and text: str.lower, str.strip, the regex classes \w and \s, *)
(* and the code points str comparison goes by.                             *)
(***************************************************************************)
Uppers == <<"A", "B", "C", "D", "E", "F", "G", "H", "I", "J", "K", "L", "M",
            "N", "O", "P", "Q", "R", "S", "T", "U", "V", "W", "X", "Y", "Z">>

Lowers == <<"a", "b", "c", "d", "e", "f", "g", "h", "i", "j", "k", "l", "m",
            "n", "o", "p", "q", "r", "s", "t", "u", "v", "w", "x", "y", "z">>

Digits == <<"0", "1", "2", "3", "4", "5", "6", "7", "8", "9">>

Range(s) == {s[i] : i \in DOMAIN s}

IndexOf(s, c) == CHOOSE i \in DOMAIN s : s[i] = c

\* the other characters of the model's texts
Punctuation == {"\t", " ", "!", "%", "&", ",", "-", ":", "_"}

Chars == Range(Digits) \cup Range(Uppers) \cup Range(Lowers) \cup Punctuation

\* str.lower() on each character
LowerOf ==
    [c \in Chars |-> IF c \in Range(Uppers) THEN Lowers[IndexOf(Uppers, c)] ELSE c]

LowerChar(c) == LowerOf[c]

\* str.lower()
Lower(s) == [i \in DOMAIN s |-> LowerOf[s[i]]]

\* ord(c) of each character
CodePointOf ==
    [c \in Chars |->
        IF c \in Range(Digits) THEN 47 + IndexOf(Digits, c)
        ELSE IF c \in Range(Uppers) THEN 64 + IndexOf(Uppers, c)
        ELSE IF c \in Range(Lowers) THEN 96 + IndexOf(Lowers, c)
        ELSE CASE c = "\t" -> 9
               [] c = " " -> 32
               [] c = "!" -> 33
               [] c = "%" -> 37
               [] c = "&" -> 38
               [] c = "," -> 44
               [] c = "-" -> 45
               [] c = ":" -> 58
               [] c = "_" -> 95]

CodePoint(c) == CodePointOf[c]

\* the regex class \w
WordChars == Range(Digits) \cup Range(Uppers) \cup Range(Lowers) \cup {"_"}

IsWordChar(c) == c \in WordChars

\* the regex class \s, which is also what str.strip() removes
SpaceChars == {" ", "\t"}

IsSpaceChar(c) == c \in SpaceChars

\* str.strip()
Strip(s) ==
    LET keep == {i \in DOMAIN s : ~IsSpaceChar(s[i])}
    IN  IF keep = {} THEN <<>>
        ELSE LET lo == CHOOSE i \in keep : \A j \in keep : i <= j
                 hi == CHOOSE i \in keep : \A j \in keep : j <= i
             IN  SubSeq(s, lo, hi)

\* a < b on two str: lexicographic by code point, a proper prefix first
TextLess(a, b) ==
    \E i \in 1..(Len(b)) :
        /\ \A j \in 1..(i - 1) : j <= Len(a) /\ a[j] = b[j]
        /\ i - 1 <= Len(a)
        /\ \/ i = Len(a) + 1
           \/ i <= Len(a) /\ CodePoint(a[i]) < CodePoint(b[i])

(***************************************************************************)
(* datetime.date: str(date) and the parsing pydantic does for a date field *)
(* given as text (YYYY-MM-DD, a real calendar day).                        *)
(***************************************************************************)
IsLeap(y) == (y % 4 = 0 /\ y % 100 # 0) \/ y % 400 = 0

DaysIn(y, m) ==
    IF m = 2 THEN (IF IsLeap(y) THEN 29 ELSE 28)
    ELSE IF m \in {4, 6, 9, 11} THEN 30 ELSE 31

DigitChars == Range(Digits)

DigitValOf == [c \in DigitChars |-> IndexOf(Digits, c) - 1]

DigitVal(c) == DigitValOf[c]

DigitChar(n) == Digits[n + 1]

\* str(date): "%04d-%02d-%02d"
DateToStr(d) ==
    << DigitChar(d.year \div 1000), DigitChar((d.year \div 100) % 10),
       DigitChar((d.year \div 10) % 10), DigitChar(d.year % 10), "-",
       DigitChar(d.month \div 10), DigitChar(d.month % 10), "-",
       DigitChar(d.day \div 10), DigitChar(d.day % 10) >>

\* the text has the shape dddd-dd-dd
IsDateShaped(s) ==
    /\ Len(s) = 10
    /\ s[5] = "-" /\ s[8] = "-"
    /\ \A i \in {1, 2, 3, 4, 6, 7, 9, 10} : s[i] \in DigitChars

DateFields(s) ==
    [year  |-> 1000 * DigitVal(s[1]) + 100 * DigitVal(s[2]) + 10 * DigitVal(s[3]) + DigitVal(s[4]),
     month |-> 10 * DigitVal(s[6]) + DigitVal(s[7]),
     day   |-> 10 * DigitVal(s[9]) + DigitVal(s[10])]

\* pydantic accepts the text as a date
IsDateStr(s) ==
    /\ IsDateShaped(s)
    /\ LET d == DateFields(s)
       IN  /\ d.year >= 1
           /\ d.month \in 1..12
           /\ d.day \in 1..DaysIn(d.year, d.month)

\* the date pydantic makes of an accepted text
ParseDate(s) == DateFields(s)

\* a < b on two dates
DateLess(a, b) ==
    \/ a.year < b.year
    \/ a.year = b.year /\ a.month < b.month
    \/ a.year = b.year /\ a.month = b.month /\ a.day < b.day

(***************************************************************************)
(* src/src/constants.py                                                    *)
(***************************************************************************)
TaskStatus == {"completed", "not_completed"}

TaskPriority == {"low", "normal", "high"}

TaskCategory == {"work", "study", "personal"}

STATUS_SORT_ORDER == [s \in TaskStatus |-> IF s = "not_completed" THEN 0 ELSE 1]

PRIORITY_SORT_ORDER ==
    [p \in TaskPriority |-> CASE p = "high" -> 0 [] p = "normal" -> 1 [] p = "low" -> 2]

CATEGORY_SORT_ORDER ==
    [c \in TaskCategory |-> CASE c = "work" -> 0 [] c = "study" -> 1 [] c = "personal" -> 2]

(***************************************************************************)
(* src/src/schemas.py.  A value handed to a date field is either text or a *)
(* date object; DictStr and DictDate tag the two.                          *)
(***************************************************************************)
NoDate == [year |-> 1, month |-> 1, day |-> 1]

DictStr(s) == [isDate |-> FALSE, text |-> s, date |-> NoDate]

DictDate(d) == [isDate |-> TRUE, text |-> <<>>, date |-> d]

\* pydantic's validation of a date field
DateFieldValid(v) == v.isDate \/ IsDateStr(v.text)

DateFieldValue(v) == IF v.isDate THEN v.date ELSE ParseDate(v.text)

\* BaseTaskSchema.validate_author: the name is not blank
validate_author(value) == Strip(value) # <<>>

\* BaseTaskSchema accepts the five fields of d
BaseTaskSchemaValid(d) ==
    /\ validate_author(d.name)
    /\ d.category \in TaskCategory
    /\ DateFieldValid(d.deadline)
    /\ d.priority \in TaskPriority

\* TaskCreate(name=..., description=..., category=..., deadline=..., priority=...)
\* raises ValidationError unless this holds
TaskCreateValid(raw) == BaseTaskSchemaValid(raw)

\* the TaskCreate instance, its deadline parsed
TaskCreate(raw) ==
    [name |-> raw.name, description |-> raw.description, category |-> raw.category,
     deadline |-> DateFieldValue(raw.deadline), priority |-> raw.priority]

\* TaskCreate.model_dump(): the fields as a dict
TaskCreateDump(data) ==
    [name |-> data.name, description |-> data.description, category |-> data.category,
     deadline |-> DictDate(data.deadline), priority |-> data.priority]

\* TaskRead.model_validate(d) / TaskRead(**d) raises ValidationError unless this holds
TaskReadValid(d) == BaseTaskSchemaValid(d) /\ d.status \in TaskStatus

\* the TaskRead instance made of an accepted dict
TaskRead(d) ==
    [id |-> d.id, name |-> d.name, description |-> d.description, status |-> d.status,
     priority |-> d.priority, category |-> d.category, deadline |-> DateFieldValue(d.deadline)]

\* TaskRead.serialize_model, which is what TaskRead.model_dump() returns
serialize_model(task) ==
    [id |-> task.id, name |-> task.name, description |-> task.description,
     status |-> task.status, priority |-> task.priority, category |-> task.category,
     deadline |-> DictStr(DateToStr(task.deadline))]

\* the fields of TaskUpdate; a field outside raw.set is None
UpdateFields == {"name", "description", "category", "deadline", "priority", "status"}

\* TaskUpdate(...) raises ValidationError unless this holds (no check of the name here)
TaskUpdateValid(raw) ==
    /\ "category" \in raw.set => raw.val.category \in TaskCategory
    /\ "deadline" \in raw.set => DateFieldValid(raw.val.deadline)
    /\ "priority" \in raw.set => raw.val.priority \in TaskPriority
    /\ "status" \in raw.set => raw.val.status \in TaskStatus

\* TaskUpdate.model_dump(exclude_none=True): the supplied fields, the deadline a date
TaskUpdateDump(raw) ==
    [set |-> raw.set,
     val |-> [raw.val EXCEPT !.deadline =
                 IF "deadline" \in raw.set THEN DictDate(DateFieldValue(raw.val.deadline))
                 ELSE raw.val.deadline]]

(***************************************************************************)
(* src/src/service.py: persistence.  A file is [exists, empty, data]:      *)
(* empty is a file of zero bytes, data the JSON array of an other file,    *)
(* each entry a dict of text.                                              *)
(***************************************************************************)
NoFile == [exists |-> FALSE, empty |-> TRUE, data |-> <<>>]

EmptyFile == [exists |-> TRUE, empty |-> TRUE, data |-> <<>>]

JsonFile(entries) == [exists |-> TRUE, empty |-> FALSE, data |-> entries]

\* TaskSchemaEncoder, the status left at its default
TaskSchemaEncoderNoStatus(obj) ==
    LET d == serialize_model(obj)
    IN  [id |-> d.id, name |-> d.name, description |-> d.description,
         status |-> "not_completed", priority |-> d.priority, category |-> d.category,
         deadline |-> d.deadline.text]

\* TaskSchemaEncoder.default: model_dump(exclude_none=True), then str() of the deadline
TaskSchemaEncoder(obj) ==
    LET d == serialize_model(obj)
    IN  [id |-> d.id, name |-> d.name, description |-> d.description, status |-> d.status,
         priority |-> d.priority, category |-> d.category, deadline |-> d.deadline.text]

\* json.dump(self.tasks, ...): the entries written, in the order of the list
json_dump(ts) == [i \in DOMAIN ts |-> TaskSchemaEncoder(ts[i])]

\* TaskService.save_data: the file after it
save_data(ts) == JsonFile(json_dump(ts))

\* an entry json.load read, as the dict handed to TaskRead.model_validate
JsonEntry(e) == [e EXCEPT !.deadline = DictStr(e.deadline)]

\* TaskService._load_data
load_data(f) ==
    IF f.exists
    THEN IF f.empty
         THEN [outcome |-> "JSONDecodeError", tasks |-> <<>>]
         ELSE IF \A i \in DOMAIN f.data : TaskReadValid(JsonEntry(f.data[i]))
              THEN [outcome |-> "ok",
                    tasks |-> [i \in DOMAIN f.data |-> TaskRead(JsonEntry(f.data[i]))]]
              ELSE [outcome |-> "ValidationError", tasks |-> <<>>]
    ELSE [outcome |-> "ok", tasks |-> <<>>]

(***************************************************************************)
(* src/src/service.py: the canonical order.                                *)
(***************************************************************************)
\* TaskService._basic_sorting_key
basic_sorting_key(task) ==
    [priority |-> PRIORITY_SORT_ORDER[task.priority],
     status |-> STATUS_SORT_ORDER[task.status],
     deadline |-> task.deadline,
     category |-> CATEGORY_SORT_ORDER[task.category],
     name |-> task.name]

\* KeyLess, the deadline left out of the key
KeyLessNoDeadline(a, b) ==
    \/ a.priority < b.priority
    \/ /\ a.priority = b.priority
       /\ \/ a.status < b.status
          \/ /\ a.status = b.status
             /\ \/ a.category < b.category
                \/ a.category = b.category /\ TextLess(a.name, b.name)

\* a < b on two keys: Python's comparison of tuples, left to right
KeyLess(a, b) ==
    \/ a.priority < b.priority
    \/ /\ a.priority = b.priority
       /\ \/ a.status < b.status
          \/ /\ a.status = b.status
             /\ \/ DateLess(a.deadline, b.deadline)
                \/ /\ a.deadline = b.deadline
                   /\ \/ a.category < b.category
                      \/ a.category = b.category /\ TextLess(a.name, b.name)

\* x put into the sorted run s behind every element that is not greater
InsertSorted(s, x) ==
    LET later == {i \in DOMAIN s : KeyLess(basic_sorting_key(x), basic_sorting_key(s[i]))}
        at == IF later = {} THEN Len(s) + 1
              ELSE CHOOSE i \in later : \A j \in later : i <= j
    IN  SubSeq(s, 1, at - 1) \o <<x>> \o SubSeq(s, at, Len(s))

RECURSIVE sorted(_)
\* sorted(ts, key=self._basic_sorting_key): a stable sort
sorted(ts) ==
    IF ts = <<>> THEN <<>>
    ELSE InsertSorted(sorted(SubSeq(ts, 1, Len(ts) - 1)), ts[Len(ts)])

\* TaskService.get_all
get_all(ts) == sorted(ts)

(***************************************************************************)
(* src/src/service.py: find.                                               *)
(***************************************************************************)
\* re.sub(r'[^\w\s]', '', query)
RemovePunctuation(q) == SelectSeq(q, LAMBDA c : IsWordChar(c) \/ IsSpaceChar(c))

RECURSIVE CollapseSpaces(_)
\* re.sub(r' {2,}', ' ', query): a space that follows a space is dropped
CollapseSpaces(q) ==
    IF Len(q) <= 1 THEN q
    ELSE IF q[1] = " " /\ q[2] = " " THEN CollapseSpaces(Tail(q))
    ELSE <<q[1]>> \o CollapseSpaces(Tail(q))

RECURSIVE Split(_)
\* str.split(" "): the pieces between single spaces, [""] for the empty string
Split(q) ==
    LET at == {i \in DOMAIN q : q[i] = " "}
    IN  IF at = {} THEN <<q>>
        ELSE LET i == CHOOSE k \in at : \A j \in at : k <= j
             IN  <<SubSeq(q, 1, i - 1)>> \o Split(SubSeq(q, i + 1, Len(q)))

\* the keywords find makes of the query
Keywords(query) == Split(Strip(CollapseSpaces(RemovePunctuation(query))))

\* the regex \b holds between positions p and p + 1 of the text
WordBoundary(text, p) ==
    (p >= 1 /\ IsWordChar(text[p])) # (p < Len(text) /\ IsWordChar(text[p + 1]))

\* \bword\b matches the text from position p + 1 on, ignoring case
MatchesAt(word, text, p) ==
    /\ p + Len(word) <= Len(text)
    /\ WordBoundary(text, p)
    /\ \A k \in 1..Len(word) : LowerChar(text[p + k]) = LowerChar(word[k])
    /\ WordBoundary(text, p + Len(word))

\* re_findall, every keyword having to match
re_findall_every(keywords, text) ==
    \A w \in DOMAIN keywords : \E p \in 0..Len(text) : MatchesAt(keywords[w], text, p)

\* re.findall('|'.join(rf'\b{word}\b' ...), text, re.IGNORECASE) is not empty
re_findall(keywords, text) ==
    \E w \in DOMAIN keywords : \E p \in 0..Len(text) : MatchesAt(keywords[w], text, p)

\* the test of find's loop: the name first, the description next
FindMatches(keywords, task) ==
    re_findall(keywords, task.name) \/ re_findall(keywords, task.description)

\* TaskService.find
find(ts, query) ==
    LET keywords == Keywords(query)
    IN  sorted(SelectSeq(ts, LAMBDA task : FindMatches(keywords, task)))

(***************************************************************************)
(* src/src/service.py: lookup and filters.  A task_id argument is          *)
(* [isStr, text]; a value that is no str (an int) has isStr FALSE and no   *)
(* lower() method.                                                         *)
(***************************************************************************)
StrId(text) == [isStr |-> TRUE, text |-> text]

IntId == [isStr |-> FALSE, text |-> <<>>]

\* the indices whose record the loop of get_by_id / update accepts
IdMatches(ts, task_id) == {i \in DOMAIN ts : Lower(task_id.text) = Lower(ts[i].id)}

\* get_by_id, comparing the ids as they are written
get_by_id_exact(ts, task_id) ==
    IF ts = <<>> THEN [outcome |-> "ok", found |-> FALSE, index |-> 0]
    ELSE IF ~task_id.isStr THEN [outcome |-> "AttributeError", found |-> FALSE, index |-> 0]
    ELSE LET m == {i \in DOMAIN ts : task_id.text = ts[i].id}
         IN  IF m = {} THEN [outcome |-> "ok", found |-> FALSE, index |-> 0]
             ELSE [outcome |-> "ok", found |-> TRUE,
                   index |-> CHOOSE i \in m : \A j \in m : i <= j]

\* TaskService.get_by_id: task_id.lower() is evaluated in the loop body only
get_by_id(ts, task_id) ==
    IF ts = <<>> THEN [outcome |-> "ok", found |-> FALSE, index |-> 0]
    ELSE IF ~task_id.isStr THEN [outcome |-> "AttributeError", found |-> FALSE, index |-> 0]
    ELSE LET m == IdMatches(ts, task_id)
         IN  IF m = {} THEN [outcome |-> "ok", found |-> FALSE, index |-> 0]
             ELSE [outcome |-> "ok", found |-> TRUE,
                   index |-> CHOOSE i \in m : \A j \in m : i <= j]

\* TaskService.get_by_category
get_by_category(ts, category) == SelectSeq(ts, LAMBDA task : category = task.category)

\* TaskService.get_by_status
get_by_status(ts, status) == SelectSeq(ts, LAMBDA task : status = task.status)

\* TaskService.get_by_category_and_status
get_by_category_and_status(ts, category, status) ==
    SelectSeq(ts, LAMBDA task : category = task.category /\ status = task.status)

(***************************************************************************)
(* src/src/service.py: the mutations, as the collection they leave and how *)
(* they end.                                                               *)
(***************************************************************************)
\* add, putting the new record first
add_first(ts, raw, uuid) ==
    IF ~TaskCreateValid(raw)
    THEN [outcome |-> "ValidationError", tasks |-> ts, result |-> <<>>]
    ELSE LET d == TaskCreate(raw)
             validated_task ==
                 [id |-> uuid, status |-> "not_completed", name |-> d.name,
                  description |-> d.description, category |-> d.category,
                  deadline |-> d.deadline, priority |-> d.priority]
         IN  [outcome |-> "ok", tasks |-> <<validated_task>> \o ts,
              result |-> <<validated_task>>]

\* TaskService.add, lines 79-80; TaskCreate(...) is evaluated by the caller first
add(ts, raw, uuid) ==
    IF ~TaskCreateValid(raw)
    THEN [outcome |-> "ValidationError", tasks |-> ts, result |-> <<>>]
    ELSE LET d == TaskCreateDump(TaskCreate(raw))
             validated_task ==
                 TaskRead([id |-> uuid, status |-> "not_completed", name |-> d.name,
                           description |-> d.description, category |-> d.category,
                           deadline |-> d.deadline, priority |-> d.priority])
         IN  [outcome |-> "ok", tasks |-> Append(ts, validated_task),
              result |-> <<validated_task>>]

\* list.remove(x): the first element equal to x goes
list_remove(ts, x) ==
    LET i == CHOOSE k \in DOMAIN ts : ts[k] = x /\ \A j \in 1..(k - 1) : ts[j] # x
    IN  SubSeq(ts, 1, i - 1) \o SubSeq(ts, i + 1, Len(ts))

\* delete, the last record going when no record has the id
delete_or_last(ts, task_id) ==
    LET got == get_by_id(ts, task_id)
    IN  IF got.outcome # "ok" THEN [outcome |-> got.outcome, tasks |-> ts]
        ELSE IF ~got.found
             THEN [outcome |-> "TaskDoesNotExists", tasks |-> SubSeq(ts, 1, Len(ts) - 1)]
        ELSE [outcome |-> "ok", tasks |-> list_remove(ts, ts[got.index])]

\* TaskService.delete, lines 150-154
delete(ts, task_id) ==
    LET got == get_by_id(ts, task_id)
    IN  IF got.outcome # "ok" THEN [outcome |-> got.outcome, tasks |-> ts]
        ELSE IF ~got.found THEN [outcome |-> "TaskDoesNotExists", tasks |-> ts]
        ELSE [outcome |-> "ok", tasks |-> list_remove(ts, ts[got.index])]

\* dict_update, the status falling back to its default when it is not supplied
dict_update_reset(task_data, new_data) ==
    [f \in DOMAIN task_data |->
        IF f \in new_data.set THEN new_data.val[f]
        ELSE IF f = "status" THEN "not_completed" ELSE task_data[f]]

\* task_data.update(new_data): the supplied fields overwrite the dumped ones
dict_update(task_data, new_data) ==
    [f \in DOMAIN task_data |-> IF f \in new_data.set THEN new_data.val[f] ELSE task_data[f]]

\* TaskService.update, lines 167-179; TaskUpdate(...) is evaluated by the caller first
update(ts, task_id, raw) ==
    IF ~TaskUpdateValid(raw) THEN [outcome |-> "ValidationError", tasks |-> ts]
    ELSE IF ts = <<>> THEN [outcome |-> "TaskDoesNotExists", tasks |-> ts]
    ELSE IF ~task_id.isStr THEN [outcome |-> "AttributeError", tasks |-> ts]
    ELSE LET m == IdMatches(ts, task_id)
         IN  IF m = {} THEN [outcome |-> "TaskDoesNotExists", tasks |-> ts]
             ELSE LET i == CHOOSE k \in m : \A j \in m : k <= j
                      task_data == dict_update(serialize_model(ts[i]), TaskUpdateDump(raw))
                  IN  IF ~TaskReadValid(task_data)
                      THEN [outcome |-> "ValidationError", tasks |-> ts]
                      ELSE [outcome |-> "ok", tasks |-> [ts EXCEPT ![i] = TaskRead(task_data)]]

(***************************************************************************)
(* The inputs the model draws from: the payloads of the test suite         *)
(* (src/tests/test_task_service.py) and data files a run may find.         *)
(***************************************************************************)
CreateInput(name, description, category, deadline, priority) ==
    [name |-> name, description |-> description, category |-> category,
     deadline |-> DictStr(deadline), priority |-> priority]

CreateTask1 == CreateInput(<<"T", "a", "s", "k", " ", "1">>, <<"t", "e", "s", "t", " ", "t", "a", "s", "k">>, "work", <<"2", "0", "2", "4", "-", "1", "2", "-", "2", "1">>, "high")

CreateBlankName == CreateInput(<<" ", " ">>, <<"t", "e", "s", "t", " ", "t", "a", "s", "k">>, "personal", <<"2", "0", "2", "4", "-", "1", "2", "-", "2", "2">>, "normal")

CreateBadMonth == CreateInput(<<"T", "a", "s", "k", " ", "1">>, <<"t", "e", "s", "t", " ", "t", "a", "s", "k">>, "work", <<"2", "0", "2", "4", "-", "2", "0", "-", "0", "8">>, "low")

CreateBadDay == CreateInput(<<"T", "a", "s", "k", " ", "1">>, <<"t", "e", "s", "t", " ", "t", "a", "s", "k">>, "work", <<"2", "0", "2", "3", "-", "0", "2", "-", "2", "9">>, "low")

CreateBadShape == CreateInput(<<"T", "a", "s", "k", " ", "1">>, <<"t", "e", "s", "t", " ", "t", "a", "s", "k">>, "personal", <<"2", "0", "2", "4", " ", "1", "2", " ", "2", "2">>, "normal")

CreateBadCategory == CreateInput(<<"T", "a", "s", "k", " ", "1">>, <<"t", "e", "s", "t", " ", "t", "a", "s", "k">>, "some category", <<"2", "0", "2", "4", "-", "1", "2", "-", "2", "2">>, "low")

ValidCreateInputs == {CreateTask1}

CreateTask2 == CreateInput(<<"T", "a", "s", "k", " ", "2">>, <<>>, "work", <<"2", "0", "2", "4", "-", "1", "2", "-", "2", "2">>, "high")

CreateTask12 == CreateInput(<<"T", "a", "s", "k", " ", "1", "2">>, <<"t", "e", "s", "t", " ", "t", "a", "s", "k">>, "personal", <<"2", "0", "2", "4", "-", "1", "2", "-", "2", "2">>, "normal")

\* payloads test_add creates records from
TestAddInputs == {CreateTask1, CreateTask2, CreateTask12}

InvalidCreateInputs ==
    {CreateBlankName, CreateBadMonth, CreateBadDay, CreateBadShape, CreateBadCategory}

CreateInputs == ValidCreateInputs \cup InvalidCreateInputs

\* a TaskUpdate with every field None
UpdateNone ==
    [name |-> <<>>, description |-> <<>>, category |-> "", deadline |-> DictStr(<<>>),
     priority |-> "", status |-> ""]

UpdateStatus == [set |-> {"status"}, val |-> [UpdateNone EXCEPT !.status = "completed"]]

UpdateTexts ==
    [set |-> {"name", "description", "deadline"},
     val |-> [UpdateNone EXCEPT !.name = <<"U", "p", "d", "a", "t", "e", "d", " ", "n", "a", "m", "e">>,
                                !.description = <<"n", "e", "w", " ", "d", "e", "s", "c", "r", "i", "p", "t", "i", "o", "n">>,
                                !.deadline = DictStr(<<"2", "0", "2", "4", "-", "1", "2", "-", "2", "0">>)]]

UpdateNothing == [set |-> {}, val |-> UpdateNone]

UpdateBlankName == [set |-> {"name"}, val |-> [UpdateNone EXCEPT !.name = <<" ", " ">>]]

UpdateBadDate ==
    [set |-> {"deadline"}, val |-> [UpdateNone EXCEPT !.deadline = DictStr(<<"2", "0", "2", "4", "-", "2", "0", "-", "0", "8">>)]]

ValidUpdateInputs == {UpdateStatus, UpdateTexts, UpdateNothing}

UpdateInputs == ValidUpdateInputs \cup {UpdateBlankName, UpdateBadDate}

\* str(uuid.uuid4()) of the n-th call: lower-case, never an id seen before
Uuid(n) == <<"a", DigitChar(n)>>

\* str.upper() on each character
UpperOf ==
    [c \in Chars |-> IF c \in Range(Lowers) THEN Uppers[IndexOf(Lowers, c)] ELSE c]

\* str.upper()
Upper(s) == [i \in DOMAIN s |-> UpperOf[s[i]]]

\* an entry of a data file
FileEntry(id, name, status, deadline) ==
    [id |-> id, name |-> name, description |-> <<"t", "e", "s", "t", " ", "t", "a", "s", "k">>, status |-> status,
     priority |-> "normal", category |-> "work", deadline |-> deadline]

EntryF1 == FileEntry(<<"f", "1">>, <<"T", "a", "s", "k", " ", "1">>, "completed", <<"2", "0", "2", "4", "-", "1", "2", "-", "2", "1">>)

EntryF2 == FileEntry(<<"f", "2">>, <<"T", "a", "s", "k", " ", "2">>, "not_completed", <<"2", "0", "2", "4", "-", "1", "2", "-", "2", "2">>)

\* an entry with the id of EntryF1 again
EntryF1Again == FileEntry(<<"f", "1">>, <<"T", "a", "s", "k", " ", "2">>, "not_completed", <<"2", "0", "2", "4", "-", "1", "2", "-", "2", "2">>)

\* an entry whose id differs from EntryF1's in case only
EntryF1Upper == FileEntry(<<"F", "1">>, <<"T", "a", "s", "k", " ", "2">>, "not_completed", <<"2", "0", "2", "4", "-", "1", "2", "-", "2", "2">>)

EntryBlankName == FileEntry(<<"f", "2">>, <<" ", " ">>, "not_completed", <<"2", "0", "2", "4", "-", "1", "2", "-", "2", "2">>)

EntryBadDate == FileEntry(<<"f", "2">>, <<"T", "a", "s", "k", " ", "2">>, "not_completed", <<"2", "0", "2", "4", "-", "2", "0", "-", "0", "8">>)

\* the data files a run may start from: none, one of zero bytes, the array [],
\* files an earlier run saved, files edited by hand
InitialFiles ==
    {NoFile, EmptyFile, JsonFile(<<>>), JsonFile(<<EntryF1>>), JsonFile(<<EntryF1, EntryF2>>),
     JsonFile(<<EntryF1, EntryF1Again>>), JsonFile(<<EntryF1, EntryF1Upper>>),
     JsonFile(<<EntryF1, EntryBlankName>>), JsonFile(<<EntryBadDate>>)}

\* the task_id arguments tried on a collection: each id in upper case, an id of
\* no record, and a value that is no str; a lookup tries each id as it is too
AbsentId == <<"1">>

IdArgs(ts) == {StrId(Upper(ts[i].id)) : i \in DOMAIN ts} \cup {StrId(AbsentId), IntId}

LookupArgs(ts) == IdArgs(ts) \cup {StrId(ts[i].id) : i \in DOMAIN ts}

\* the ids add has returned so far, as they are and in upper case; test_delete looks
\* one up after its record was deleted
CreatedIdArgs(n) == {StrId(Uuid(k)) : k \in 1..n} \cup {StrId(Upper(Uuid(k))) : k \in 1..n}

(***************************************************************************)
(* The state: the data file, whether the TaskService was constructed (svc: *)
(* "none", "ready", or "failed" when __init__ raised), self.tasks, the     *)
(* number of uuids handed out, and the last call with how it ended.        *)
(***************************************************************************)
\* a call: the method, how it ended ("ok" or the exception), its need_save, whether
\* the call before it wrote the file (kept for construct_another only), its argument
\* (kept for the lookups, the queries and an add or update that succeeded) and what it
\* returned
Call(op, outcome, need_save, after_save, arg, result) ==
    [op |-> op, outcome |-> outcome, need_save |-> need_save, after_save |-> after_save,
     arg |-> arg, result |-> result]

NoArg == <<>>

\* the call wrote the whole collection to the file
Wrote(call) ==
    \/ call.op = "save_data"
    \/ call.op \in {"add", "update", "delete"} /\ call.need_save /\ call.outcome = "ok"

Init ==
    /\ file \in InitialFiles
    /\ svc = "none"
    /\ tasks = <<>>
    /\ uuids = 0
    /\ last = Call("none", "ok", FALSE, FALSE, NoArg, <<>>)

\* TaskService.__init__
Construct ==
    /\ svc = "none"
    /\ LET r == load_data(file)
       IN  /\ svc' = IF r.outcome = "ok" THEN "ready" ELSE "failed"
           /\ tasks' = r.tasks
           /\ last' = Call("construct", r.outcome, FALSE, FALSE, NoArg, r.tasks)
    /\ UNCHANGED <<file, uuids>>

\* Persisted, saving the collection as it was before the call
PersistedStale(r, need_save) ==
    IF r.outcome = "ok" /\ need_save THEN save_data(tasks) ELSE file

\* the file after a mutation that ended r and was asked to save or not
Persisted(r, need_save) ==
    IF r.outcome = "ok" /\ need_save THEN save_data(r.tasks) ELSE file

\* TaskService.add(TaskCreate(**raw), need_save)
Add(raw, need_save) ==
    /\ svc = "ready"
    /\ uuids < MaxUuids
    /\ Len(tasks) < MaxTasks
    /\ LET r == add(tasks, raw, Uuid(uuids + 1))
       IN  /\ tasks' = r.tasks
           /\ uuids' = IF r.outcome = "ok" THEN uuids + 1 ELSE uuids
           /\ file' = Persisted(r, need_save)
           /\ last' = Call("add", r.outcome, need_save, FALSE,
                            IF r.outcome = "ok" THEN raw ELSE NoArg, r.result)
    /\ svc' = svc

\* TaskService.update(task_id, TaskUpdate(**raw), need_save)
Update(task_id, raw, need_save) ==
    /\ svc = "ready"
    /\ LET r == update(tasks, task_id, raw)
       IN  /\ tasks' = r.tasks
           /\ file' = Persisted(r, need_save)
           /\ last' = Call("update", r.outcome, need_save, FALSE,
                            IF r.outcome = "ok" THEN [id |-> task_id, data |-> raw] ELSE NoArg,
                            <<>>)
    /\ UNCHANGED <<svc, uuids>>

\* TaskService.delete(task_id, need_save)
Delete(task_id, need_save) ==
    /\ svc = "ready"
    /\ LET r == delete(tasks, task_id)
       IN  /\ tasks' = r.tasks
           /\ file' = Persisted(r, need_save)
           /\ last' = Call("delete", r.outcome, need_save, FALSE, NoArg, <<>>)
    /\ UNCHANGED <<svc, uuids>>

\* TaskService.save_data()
SaveData ==
    /\ svc = "ready"
    /\ file' = save_data(tasks)
    /\ last' = Call("save_data", "ok", TRUE, FALSE, NoArg, <<>>)
    /\ UNCHANGED <<svc, tasks, uuids>>

\* another TaskService(file_name) on the same path, as test_save_data makes:
\* result is its collection
ConstructAnother ==
    /\ svc = "ready"
    /\ LET r == load_data(file)
       IN  last' = Call("construct_another", r.outcome, FALSE, Wrote(last), NoArg, r.tasks)
    /\ UNCHANGED <<file, svc, tasks, uuids>>

\* TaskService.get_by_id(task_id)
GetById(task_id) ==
    /\ svc = "ready"
    /\ LET r == get_by_id(tasks, task_id)
       IN  last' = Call("get_by_id", r.outcome, FALSE, FALSE, task_id,
                        IF r.found THEN <<tasks[r.index]>> ELSE <<>>)
    /\ UNCHANGED <<file, svc, tasks, uuids>>

Next ==
    \/ Construct
    \/ \E raw \in CreateInputs, need_save \in BOOLEAN : Add(raw, need_save)
    \/ \E task_id \in IdArgs(tasks), raw \in UpdateInputs, need_save \in BOOLEAN :
          Update(task_id, raw, need_save)
    \/ \E task_id \in IdArgs(tasks), need_save \in BOOLEAN : Delete(task_id, need_save)
    \/ SaveData
    \/ ConstructAnother
    \/ \E task_id \in LookupArgs(tasks) \cup CreatedIdArgs(uuids) : GetById(task_id)

Spec == Init /\ [][Next]_vars

(***************************************************************************)
(* The queries.  They read self.tasks and change nothing, so they are      *)
(* checked from every collection of up to MaxLen records drawn from        *)
(* QueryRecords: the store as MaxLen adds without saving and some updates  *)
(* leave it, as the fixture of the test suite does.                        *)
(***************************************************************************)
Date(y, m, d) == [year |-> y, month |-> m, day |-> d]

QueryRecord(name, description, category, deadline, priority, status) ==
    [id |-> <<>>, name |-> name, description |-> description, status |-> status,
     priority |-> priority, category |-> category, deadline |-> deadline]

RecordA == QueryRecord(<<"A">>, <<"t", "e", "s", "t", " ", "g", "e", "t", " ", "t", "a", "s", "k">>, "work", Date(2024, 12, 21), "high", "not_completed")

RecordB ==
    QueryRecord(<<"B">>, <<"t", "e", "s", "t", " ", "u", "p", "d", "a", "t", "e", " ", "t", "a", "s", "k">>, "work", Date(2024, 12, 20), "high", "not_completed")

RecordC == QueryRecord(<<"C">>, <<>>, "work", Date(2024, 12, 1), "low", "not_completed")

\* completed, its deadline before A's; GET in upper case, a comma behind it
RecordE == QueryRecord(<<"A">>, <<"G", "E", "T", ",", " ", "i", "t">>, "work", Date(2024, 12, 20), "high", "completed")

\* normal priority, the earliest deadline
RecordH == QueryRecord(<<"B">>, <<>>, "work", Date(2024, 12, 1), "normal", "not_completed")

\* H's key up to the name, which is in lower case; "task_1" is one word
RecordG == QueryRecord(<<"a">>, <<"t", "a", "s", "k", "_", "1">>, "work", Date(2024, 12, 1), "normal", "not_completed")

\* H's key up to the category, an earlier name; "Tasks" holds "task" inside a word only
RecordD == QueryRecord(<<"A">>, <<"T", "a", "s", "k", "s">>, "study", Date(2024, 12, 1), "normal", "not_completed")

QueryRecords == {RecordA, RecordB, RecordC, RecordD, RecordE, RecordG, RecordH}

\* the i-th record added got the i-th uuid
WithIds(s) == [i \in DOMAIN s |-> [s[i] EXCEPT !.id = Uuid(i)]]

QueryCollections == {WithIds(s) : s \in UNION {[1..n -> QueryRecords] : n \in 0..MaxLen}}

Queries ==
    {<<"g", "e", "t", " ", "t", "a", "s", "k">>, <<"t", "a", "s", "k">>, <<"t", "a", "s", "k", "s">>, <<>>, <<" ", " ">>, <<"!", "!">>, <<"%", "g", "e", "t", " ", " ", "&", " ", " ", "u", "p", "d", "a", "t", "e", "d", "!">>, <<" ", "G", "E", "T", " ", " ">>, <<"u", "p", "d", "a", "t", "e", " ", "i", "t">>}

CategoryArgs == TaskCategory \cup {"some category"}

StatusArgs == TaskStatus \cup {"some status"}

QueryInit ==
    /\ file = NoFile
    /\ svc = "ready"
    /\ tasks \in QueryCollections
    /\ uuids = Len(tasks)
    /\ last = Call("none", "ok", FALSE, FALSE, NoArg, <<>>)

\* TaskService.get_all()
GetAll ==
    /\ svc = "ready"
    /\ last' = Call("get_all", "ok", FALSE, FALSE, NoArg, get_all(tasks))
    /\ UNCHANGED <<file, svc, tasks, uuids>>

\* TaskService.find(query)
Find(query) ==
    /\ svc = "ready"
    /\ last' = Call("find", "ok", FALSE, FALSE, query, find(tasks, query))
    /\ UNCHANGED <<file, svc, tasks, uuids>>

\* TaskService.get_by_category(category)
GetByCategory(category) ==
    /\ svc = "ready"
    /\ last' = Call("get_by_category", "ok", FALSE, FALSE,
                    [category |-> category, status |-> ""], get_by_category(tasks, category))
    /\ UNCHANGED <<file, svc, tasks, uuids>>

\* TaskService.get_by_status(status)
GetByStatus(status) ==
    /\ svc = "ready"
    /\ last' = Call("get_by_status", "ok", FALSE, FALSE,
                    [category |-> "", status |-> status], get_by_status(tasks, status))
    /\ UNCHANGED <<file, svc, tasks, uuids>>

\* TaskService.get_by_category_and_status(category, status)
GetByCategoryAndStatus(category, status) ==
    /\ svc = "ready"
    /\ last' = Call("get_by_category_and_status", "ok", FALSE, FALSE,
                    [category |-> category, status |-> status],
                    get_by_category_and_status(tasks, category, status))
    /\ UNCHANGED <<file, svc, tasks, uuids>>

QueryNext ==
    \/ GetAll
    \/ \E query \in Queries : Find(query)
    \/ \E category \in CategoryArgs : GetByCategory(category)
    \/ \E status \in StatusArgs : GetByStatus(status)
    \/ \E category \in CategoryArgs, status \in TaskStatus :
          GetByCategoryAndStatus(category, status)

SpecQuery == QueryInit /\ [][QueryNext]_vars

(***************************************************************************)
(* The claims.                                                             *)
(***************************************************************************)
\* the file holds exactly the records of ts: as many entries, each with the id and
\* the field values of the record at its place
FileHolds(f, ts) ==
    /\ f.exists /\ ~f.empty
    /\ Len(f.data) = Len(ts)
    /\ \A i \in DOMAIN ts :
          /\ f.data[i].id = ts[i].id
          /\ f.data[i].name = ts[i].name
          /\ f.data[i].description = ts[i].description
          /\ f.data[i].status = ts[i].status
          /\ f.data[i].priority = ts[i].priority
          /\ f.data[i].category = ts[i].category
          /\ IsDateStr(f.data[i].deadline)
          /\ ParseDate(f.data[i].deadline) = ts[i].deadline

\* C1: right after a create, update or delete that was asked to save and returned,
\* the file holds the records of the in-memory collection, in its order, whatever
\* calls came before and whether they saved.
C1_FileHoldsCollection ==
    (last.op \in {"add", "update", "delete"} /\ last.need_save /\ last.outcome = "ok")
        => FileHolds(file, tasks)

\* an update has just saved a collection of two records
C1_Witness ==
    /\ last.op = "update" /\ last.need_save /\ last.outcome = "ok"
    /\ Len(tasks) = 2
    /\ FileHolds(file, tasks)

\* C2: no two records of the collection have the same id, in every state after the
\* construction of the store.
C2_UniqueIds ==
    svc = "ready" => \A i, j \in DOMAIN tasks : i # j => tasks[i].id # tasks[j].id

\* the value an update payload supplies for a field
Supplied(raw, f) == IF f = "deadline" THEN ParseDate(raw.val.deadline.text) ELSE raw.val[f]

\* C3: an update that returns changes, of the first record whose id matches without
\* regard to case, exactly the supplied fields; its other fields, its id and status
\* among them, its place, every other record and the length stay.
C3_UpdateChangesSuppliedFieldsOnly ==
    [][(last'.op = "update" /\ last'.outcome = "ok") =>
          LET raw == last'.arg.data
              m == {i \in DOMAIN tasks : Lower(tasks[i].id) = Lower(last'.arg.id.text)}
          IN  /\ m # {}
              /\ Len(tasks') = Len(tasks)
              /\ LET i == CHOOSE k \in m : \A j \in m : k <= j
                 IN  /\ \A j \in DOMAIN tasks : j # i => tasks'[j] = tasks[j]
                     /\ tasks'[i].id = tasks[i].id
                     /\ \A f \in UpdateFields :
                           tasks'[i][f] = IF f \in raw.set THEN Supplied(raw, f)
                                          ELSE tasks[i][f]]_vars

\* the name, description and deadline of a completed record have just been updated,
\* next to another record
C3_Witness ==
    /\ last.op = "update" /\ last.outcome = "ok"
    /\ last.arg.data.set = {"name", "description", "deadline"}
    /\ Len(tasks) = 2
    /\ \E i \in DOMAIN tasks :
          /\ tasks[i].name = <<"U", "p", "d", "a", "t", "e", "d", " ", "n", "a", "m", "e">>
          /\ tasks[i].deadline = Date(2024, 12, 20)
          /\ tasks[i].status = "completed"

\* no record has the id, compared without regard to case
NoRecordHas(ts, text) == \A i \in DOMAIN ts : Lower(ts[i].id) # Lower(text)

\* in this state a create with an invalid payload ends in ValidationError, and an
\* update or a delete with the id of no record ends in TaskDoesNotExists
C4_Fails ==
    svc = "ready" =>
        /\ \A raw \in InvalidCreateInputs :
              LET r == add(tasks, raw, Uuid(uuids + 1))
              IN  r.outcome = "ValidationError" /\ r.tasks = tasks
        /\ \A text \in {AbsentId, <<"a", "9">>} :
              NoRecordHas(tasks, text) =>
                  /\ LET r == delete(tasks, StrId(text))
                     IN  r.outcome = "TaskDoesNotExists" /\ r.tasks = tasks
                  /\ \A raw \in {u \in UpdateInputs : TaskUpdateValid(u)} :
                        LET r == update(tasks, StrId(text), raw)
                        IN  r.outcome = "TaskDoesNotExists" /\ r.tasks = tasks

\* a mutation that ends in one of the two errors leaves the collection and the file
C4_Unchanged ==
    (/\ last'.op \in {"add", "update", "delete"}
     /\ last'.outcome \in {"ValidationError", "TaskDoesNotExists"})
        => tasks' = tasks /\ file' = file

\* C4: a failing mutation leaves the store unchanged: create with an invalid payload
\* fails with ValidationError, update and delete with the id of no record fail with
\* TaskDoesNotExists, the collection stays as it was and the file is not written.
C4_FailingMutationChangesNothing == [](C4_Fails) /\ [][C4_Unchanged]_vars

\* a delete has just failed on a collection of records the file does not hold
C4_Witness ==
    /\ last.op = "delete" /\ last.outcome = "TaskDoesNotExists"
    /\ tasks # <<>>
    /\ ~FileHolds(file, tasks)

\* C5: a store constructed from the file right after the collection was saved to it
\* has the same collection: as many records, the same ids and field values, in the
\* same order.
C5_RoundTrip ==
    (last.op = "construct_another" /\ last.after_save)
        => last.outcome = "ok" /\ last.result = tasks

\* a second store has just been constructed from a file holding two records, one
\* of them completed
C5_Witness ==
    /\ last.op = "construct_another" /\ last.after_save
    /\ Len(last.result) = 2
    /\ \E i \in DOMAIN tasks : tasks[i].status = "completed"

\* C6: constructing the store from a path that does not exist, or from a file that
\* exists and is empty, raises nothing and leaves an empty collection.
C6_NoDataNoError ==
    (last.op = "construct" /\ (~file.exists \/ file.empty))
        => last.outcome = "ok" /\ svc = "ready" /\ tasks = <<>>

\* C7: get_by_id with an identifier that is no text ends in an error, not in
\* "not found", in every state of the store.
C7_BadIdFailsFast ==
    (last.op = "get_by_id" /\ ~last.arg.isStr) => last.outcome # "ok"

\* the store holds two records, with the descriptions "test get task" at i and
\* "test update task" at j
C8_Store(i, j) ==
    /\ Len(tasks) = 2 /\ i # j
    /\ tasks[i].description = <<"t", "e", "s", "t", " ", "g", "e", "t", " ", "t", "a", "s", "k">>
    /\ tasks[j].description = <<"t", "e", "s", "t", " ", "u", "p", "d", "a", "t", "e", " ", "t", "a", "s", "k">>

\* C8 as stated: find("get task") on that store returns only the first record.
C8_OnlyTheFirst ==
    (last.op = "find" /\ last.arg = <<"g", "e", "t", " ", "t", "a", "s", "k">>) =>
        \A i, j \in DOMAIN tasks : C8_Store(i, j) => last.result = <<tasks[i]>>

\* C8 as amended: find("get task") on that store returns both records, "task" being
\* a whole word of both descriptions.
C8_BothRecords ==
    (last.op = "find" /\ last.arg = <<"g", "e", "t", " ", "t", "a", "s", "k">>) =>
        \A i, j \in DOMAIN tasks :
            C8_Store(i, j) => Len(last.result) = 2 /\ Range(last.result) = {tasks[i], tasks[j]}

\* find("get task") has just returned on that store
C8_Witness ==
    /\ last.op = "find" /\ last.arg = <<"g", "e", "t", " ", "t", "a", "s", "k">>
    /\ \E i, j \in DOMAIN tasks : C8_Store(i, j)
    /\ Len(last.result) = 2

\* the keyword is a word of the text: a longest run of word characters of the text
\* equals it, case aside
IsWordOf(word, text) ==
    /\ word # <<>>
    /\ \E p \in 1..Len(text) :
          LET q == p + Len(word) - 1
          IN  /\ q <= Len(text)
              /\ \A k \in 1..Len(word) :
                    IsWordChar(text[p + k - 1]) /\ LowerOf[text[p + k - 1]] = LowerOf[word[k]]
              /\ p = 1 \/ ~IsWordChar(text[p - 1])
              /\ q = Len(text) \/ ~IsWordChar(text[q + 1])

\* C9: a record is in the result of find if and only if one of the keywords of the
\* query is a whole word, case aside, of its name or of its description.
C9_WholeWordMatch ==
    last.op = "find" =>
        \A i \in DOMAIN tasks :
            (tasks[i] \in Range(last.result)) <=>
                \E word \in Range(Keywords(last.arg)) :
                    IsWordOf(word, tasks[i].name) \/ IsWordOf(word, tasks[i].description)

PriorityRank(p) == CASE p = "high" -> 1 [] p = "normal" -> 2 [] p = "low" -> 3

StatusRank(x) == CASE x = "not_completed" -> 1 [] x = "completed" -> 2

CategoryRank(c) == CASE c = "work" -> 1 [] c = "study" -> 2 [] c = "personal" -> 3

\* a comes strictly before b in the canonical order
CanonicalBefore(a, b) ==
    LET ka == <<PriorityRank(a.priority), StatusRank(a.status), a.deadline.year,
                a.deadline.month, a.deadline.day, CategoryRank(a.category)>>
        kb == <<PriorityRank(b.priority), StatusRank(b.status), b.deadline.year,
                b.deadline.month, b.deadline.day, CategoryRank(b.category)>>
    IN  \/ \E n \in 1..6 : ka[n] < kb[n] /\ \A m \in 1..(n - 1) : ka[m] = kb[m]
        \/ ka = kb /\ TextLess(a.name, b.name)

\* no record of the sequence comes after one it should precede
CanonicallySorted(res) ==
    \A i, j \in DOMAIN res : i < j => ~CanonicalBefore(res[j], res[i])

\* res holds the records of ts, each as often
IsPermutation(res, ts) ==
    /\ Len(res) = Len(ts)
    /\ \A x \in Range(ts) \cup Range(res) :
          Cardinality({i \in DOMAIN res : res[i] = x}) = Cardinality({i \in DOMAIN ts : ts[i] = x})

\* res is the records of ts at the indices idx, in the order of ts
InInsertionOrder(res, ts, idx) ==
    /\ Len(res) = Cardinality(idx)
    /\ \A k \in DOMAIN res :
          res[k] = ts[CHOOSE i \in idx : Cardinality({j \in idx : j <= i}) = k]

\* the contents of the records, their ids aside
Contents(ts) == [i \in DOMAIN ts |-> [ts[i] EXCEPT !.id = <<>>]]

CreatedFrom(task, raw) ==
    /\ task.id # <<>>
    /\ task.status = "not_completed"
    /\ task.name = raw.name
    /\ task.description = raw.description
    /\ task.category = raw.category
    /\ task.priority = raw.priority
    /\ task.deadline = ParseDate(raw.deadline.text)

\* ts with task after its last record, nothing else changed
AppendedTo(after, ts, task) ==
    /\ Len(after) = Len(ts) + 1
    /\ after[Len(after)] = task
    /\ \A i \in DOMAIN ts : after[i] = ts[i]

\* in this state a create with each payload of test_add returns such a record and
\* leaves it after the records of the collection
C11_Creates ==
    svc = "ready" =>
        \A raw \in TestAddInputs :
            LET r == add(tasks, raw, Uuid(uuids + 1))
            IN  /\ r.outcome = "ok"
                /\ Len(r.result) = 1
                /\ CreatedFrom(r.result[1], raw)
                /\ AppendedTo(r.tasks, tasks, r.result[1])

\* a create that returned has put the record it returned after the others
C11_Appended ==
    (last'.op = "add" /\ last'.outcome = "ok") =>
        /\ Len(last'.result) = 1
        /\ CreatedFrom(last'.result[1], last'.arg)
        /\ AppendedTo(tasks', tasks, last'.result[1])

\* C11: a create with a valid payload returns a record with an id that is not empty,
\* status not_completed and the five fields of the payload; the record is the last
\* of the collection, which grew by one, the records before it unchanged and in order.
C11_CreateAppendsRecord == [](C11_Creates) /\ [][C11_Appended]_vars

\* a create has just returned a record put after a record loaded from the file
C11_Witness ==
    /\ last.op = "add" /\ last.outcome = "ok"
    /\ Len(tasks) = 2
    /\ tasks[1].id = <<"f", "1">>
    /\ tasks[2] = last.result[1]
    /\ tasks[2].status = "not_completed"

\* the record was made by a create of this store
Created(task) == \E k \in 1..uuids : task.id = Uuid(k)

\* C12: get_by_id with a text id returns without raising; with the id, in any
\* casing, of a record that was created and is still in the collection it returns
\* that record, and with an id that matches no record it returns None.
C12_LookupIgnoresCase ==
    (last.op = "get_by_id" /\ last.arg.isStr) =>
        /\ last.outcome = "ok"
        /\ \A i \in DOMAIN tasks :
              (Created(tasks[i]) /\ Lower(last.arg.text) = Lower(tasks[i].id))
                  => last.result = <<tasks[i]>>
        /\ NoRecordHas(tasks, last.arg.text) => last.result = <<>>

\* a created record has just been looked up by its id in upper case, next to a
\* record loaded from the file
C12_Witness ==
    /\ last.op = "get_by_id" /\ last.outcome = "ok"
    /\ last.arg = StrId(Upper(Uuid(1)))
    /\ Len(tasks) = 2
    /\ last.result = <<tasks[2]>>
    /\ tasks[2].id = Uuid(1)

\* the id of a created record has just been looked up after the record was deleted
C12_LookedUpAfterDelete ==
    /\ last.op = "get_by_id" /\ last.outcome = "ok"
    /\ last.arg = StrId(Uuid(1))
    /\ uuids = 1
    /\ NoRecordHas(tasks, Uuid(1))
    /\ last.result = <<>>

\* the query is empty or holds white space and punctuation only
NoWordIn(query) == \A k \in DOMAIN query : ~IsWordChar(query[k])

\* C13: find with a query that is empty or holds only white space or only
\* punctuation returns the empty sequence, in every state of the store.
C13_EmptyQueryMatchesNothing ==
    (last.op = "find" /\ NoWordIn(last.arg)) => last.result = <<>>

====
